---- MODULE Spec2Model ----
(***************************************************************************)
(* octobus-rethinkdb: generateCRUDservices.                                *)
(*                                                                         *)
(* A state machine of the operation map built by the generator (save,      *)
(* create, update, validate, findById, find, remove), of the RethinkDB     *)
(* table it is bound to, of the dispatcher hooks it emits, and of the      *)
(* construction of the generator with its schema bootstrap (tableList,     *)
(* tableCreate, indexList, indexCreate).  Every operation is split at its  *)
(* suspension points: the dispatch of validate, the store round trip and   *)
(* the promise callbacks that handle the reply.                            *)
(*                                                                         *)
(* JavaScript values are represented as follows.  A primitive is the text  *)
(* of its literal ("7" is the number 7, "'7'" the string '7').  A plain    *)
(* object is a TLA+ record.  A value that may be an object, an array or    *)
(* null is wrapped (JsObject, JsArray, JsNull) so that Array.isArray can   *)
(* be decided.  Primary keys generated by the store are natural numbers.   *)
(***************************************************************************)
EXTENDS Integers, Sequences, FiniteSets, TLC

VARIABLES
  schema,   \* options.schema of the generator
  table,    \* the rows of r.table(tableName), in the store's scan order
  nextKey,  \* the next primary key the store generates
  calls,    \* the operation calls issued through the dispatcher
  tableList,  \* the names of the tables of the database
  indexList,  \* the secondary indexes of r.table(tableName), by name
  gens      \* the constructions of generators (calls of the default export)

vars == <<schema, table, nextKey, calls, tableList, indexList, gens>>

\* the state the schema bootstrap works on, and the state the operations
\* of the map work on
bootVars == <<tableList, indexList, gens>>
crudVars == <<schema, table, nextKey, calls>>

----------------------------------------------------------------------------
(* Bounds *)

MaxKeys == 3    \* primary keys the store can generate
MaxBatch == 2   \* longest batch handed to save / create / validate
MaxSkip == 2    \* largest params.skip of a find
MaxLimit == 2   \* largest params.limit of a find
MaxIndexes == 2 \* indexes declared in options.indexes
MaxPieces == 3  \* pieces of a string handed over as index options

Keys == 1..MaxKeys
Calls == {"c1", "c2"}

----------------------------------------------------------------------------
(* JavaScript values *)

EmptyObject == <<>>

JsObject(r) == [kind |-> "object", obj |-> r, arr |-> <<>>]
JsArray(s) == [kind |-> "array", obj |-> EmptyObject, arr |-> s]
JsNull == [kind |-> "null", obj |-> EmptyObject, arr |-> <<>>]
JsUndefined == [kind |-> "undefined", obj |-> EmptyObject, arr |-> <<>>]
\* a primary key handed over as a bare value (the params of findById)
JsKey(k) == [kind |-> "key", obj |-> [key |-> k], arr |-> <<>>]

IsArray(x) == x.kind = "array"

\* _.omit(object, key)
Omit(r, key) == [f \in (DOMAIN r) \ {key} |-> r[f]]

\* Object.assign({}, a, b): own enumerable properties of a, then those of b
Assign(a, b) == b @@ a

\* the property names of the elements of an array
IndexKeys == <<"0", "1", "2", "3", "4", "5", "6", "7">>

\* the own enumerable properties of a value handed to Object.assign
OwnProperties(x) ==
  IF IsArray(x)
    THEN [k \in {IndexKeys[i] : i \in 1..Len(x.arr)} |->
            x.arr[CHOOSE i \in 1..Len(x.arr) : IndexKeys[i] = k]]
    ELSE x.obj

\* x.id is truthy: arrays have no id property, generated keys are truthy
HasId(x) == x.kind = "object" /\ "id" \in DOMAIN x.obj

Range(s) == {s[i] : i \in 1..Len(s)}

----------------------------------------------------------------------------
(* Joi: the schema of the test suite and Joi.attempt with                  *)
(* { convert: true, stripUnknown: true }                                   *)

NumberLiterals == {"7"}

\* what Joi.number() makes of a string under convert: true
NumericStrings == ("'7'" :> "7")

TypeOf(v) == IF v \in NumberLiterals THEN "number" ELSE "string"

UserSchemaKeys ==
  [firstName |-> [type |-> "string", required |-> TRUE],
   lastName |-> [type |-> "string", required |-> TRUE],
   role |-> [type |-> "string", required |-> FALSE],
   age |-> [type |-> "number", required |-> FALSE]]

NoSchema == [defined |-> FALSE, keys |-> EmptyObject]
UserSchema == [defined |-> TRUE, keys |-> UserSchemaKeys]

\* one value against one key of the schema: Joi.string() accepts strings
\* only, Joi.number() accepts numbers and converts numeric strings
JoiAccepts(rule, v) ==
  IF rule.type = "string"
    THEN TypeOf(v) = "string"
    ELSE TypeOf(v) = "number" \/ v \in DOMAIN NumericStrings

JoiConvert(rule, v) ==
  IF rule.type = "number" /\ TypeOf(v) = "string" THEN NumericStrings[v] ELSE v

JoiAttempt(r, keys) ==
  LET declared == (DOMAIN r) \cap (DOMAIN keys)
      missing == {f \in DOMAIN keys : keys[f].required /\ f \notin DOMAIN r}
      invalid == {f \in declared : ~JoiAccepts(keys[f], r[f])}
  IN IF missing # {} \/ invalid # {}
       THEN [ok |-> FALSE, value |-> JsUndefined]
       ELSE [ok |-> TRUE,
             value |-> JsObject([f \in declared |-> JoiConvert(keys[f], r[f])])]

----------------------------------------------------------------------------
(* map.validate *)

ValidateRecord(r, sch) == JoiAttempt(Omit(r, "id"), sch.keys)

\* map.validate without the branch for arrays
ValidateNoArrayBranch(params, sch) ==
  IF ~sch.defined
    THEN [ok |-> TRUE, value |-> params]
    ELSE ValidateRecord(params.obj, sch)

Validate(params, sch) ==
  IF ~sch.defined
    THEN [ok |-> TRUE, value |-> params]
    ELSE IF IsArray(params)
      THEN LET items == [i \in 1..Len(params.arr) |-> ValidateRecord(params.arr[i], sch)]
           IN IF \E i \in 1..Len(items) : ~items[i].ok
                THEN [ok |-> FALSE, value |-> JsUndefined]
                ELSE [ok |-> TRUE,
                      value |-> JsArray([i \in 1..Len(items) |-> items[i].value.obj])]
      ELSE ValidateRecord(params.obj, sch)

----------------------------------------------------------------------------
(* The store: r.table(tableName) of RethinkDB *)

RowIndex(t, id) == CHOOSE i \in 1..Len(t) : t[i].id = id
HasRow(t, id) == \E i \in 1..Len(t) : t[i].id = id

\* table.get(id).run(conn)
TableGet(t, id) == IF HasRow(t, id) THEN JsObject(t[RowIndex(t, id)]) ELSE JsNull

\* the documents of table.insert(data): one object or an array of objects
Documents(data) == IF IsArray(data) THEN data.arr ELSE <<data.obj>>

\* table.insert(data): document i gets the i-th generated key
InsertedRows(docs, key) == [i \in 1..Len(docs) |-> Assign(docs[i], [id |-> key + i - 1])]
GeneratedKeys(docs, key) == [i \in 1..Len(docs) |-> key + i - 1]

\* table.get(id).update(patch, { returnChanges: true })
Merged(row, patch) == Assign(row, patch)
UpdateChanges(t, id, patch) ==
  IF HasRow(t, id) /\ Merged(t[RowIndex(t, id)], patch) # t[RowIndex(t, id)]
    THEN <<[old_val |-> t[RowIndex(t, id)], new_val |-> Merged(t[RowIndex(t, id)], patch)]>>
    ELSE <<>>
UpdatedTable(t, id, patch) ==
  IF HasRow(t, id)
    THEN [t EXCEPT ![RowIndex(t, id)] = Merged(t[RowIndex(t, id)], patch)]
    ELSE t

\* a predicate handed to filter: row => row(field).ge(bound)
JsPredicate(field, bound) ==
  [kind |-> "function", obj |-> [field |-> field, ge |-> bound], arr |-> <<>>]

\* filter(f): f is a predicate, or an object every field of which the row
\* has to equal
Matches(f, row) ==
  IF f.kind = "function"
    THEN f.obj.field \in DOMAIN row /\ row[f.obj.field] >= f.obj.ge
    ELSE \A k \in DOMAIN f.obj : k \in DOMAIN row /\ row[k] = f.obj[k]

RECURSIVE SortedBy(_, _)
\* orderBy(field): ascending, rows with equal values keep their order
SortedBy(rows, field) ==
  IF rows = <<>>
    THEN <<>>
    ELSE LET least == CHOOSE i \in 1..Len(rows) :
                        /\ \A j \in 1..Len(rows) : rows[i][field] <= rows[j][field]
                        /\ \A j \in 1..(i - 1) : rows[j][field] # rows[i][field]
         IN <<rows[least]>> \o
              SortedBy(SubSeq(rows, 1, least - 1) \o SubSeq(rows, least + 1, Len(rows)), field)

Plucked(row, fields) == [f \in Range(fields) \cap (DOMAIN row) |-> row[f]]

\* one term of a query applied to the rows selected so far
ApplyTerm(term, rows) ==
  CASE term.name = "filter" -> SelectSeq(rows, LAMBDA row : Matches(term.arg, row))
    [] term.name = "orderBy" -> SortedBy(rows, term.arg)
    [] term.name = "skip" -> SubSeq(rows, term.arg + 1, Len(rows))
    [] term.name = "limit" -> SubSeq(rows, 1, IF term.arg < Len(rows) THEN term.arg ELSE Len(rows))
    [] term.name = "pluck" -> [i \in 1..Len(rows) |-> Plucked(rows[i], term.arg)]
    [] term.name = "get" -> SelectSeq(rows, LAMBDA row : row.id = term.arg)

RECURSIVE RunQuery(_, _)
\* query.run(conn): the terms chained on the table, applied first to last
RunQuery(query, rows) ==
  IF query = <<>> THEN rows ELSE RunQuery(Tail(query), ApplyTerm(Head(query), rows))

NoReply == [generated_keys |-> <<>>, wellFormed |-> FALSE, changes |-> <<>>, cursor |-> <<>>]

----------------------------------------------------------------------------
(* Inputs *)

John == [firstName |-> "'John'", lastName |-> "'Doe'"]
Jane == [firstName |-> "'Jane'", lastName |-> "'Doe'", extra |-> "'x'"]
Incomplete == [firstName |-> "'John'"]

SampleRecords ==
  { John,
    John @@ [age |-> "'7'"],
    John @@ [age |-> "'old'"],
    John @@ [extra |-> "'x'"],
    Incomplete }

\* payloads that carry an id: the first and the last key of the store
PatchRecords == {John, [lastName |-> "'Donovan'"]}
IdRecords == {Assign(r, [id |-> k]) : r \in PatchRecords, k \in {1, MaxKeys}}

BatchesOf(records) == UNION {[1..n -> records] : n \in 1..MaxBatch}

SavePayloads ==
  {JsObject(r) : r \in SampleRecords \cup IdRecords}
    \cup {JsArray(b) : b \in BatchesOf({John, Jane})}
CreatePayloads ==
  {JsObject(John), JsObject(Incomplete), JsArray(<<John>>), JsArray(<<John, Jane>>)}
UpdatePayloads == {JsObject(r) : r \in PatchRecords \cup IdRecords}
ValidatePayloads ==
  {JsObject(r) : r \in SampleRecords \cup {Assign(John, [id |-> 1])}}
    \cup {JsArray(b) : b \in BatchesOf({Jane, Incomplete})}

\* the rows of the collection the queries run on: {v: 1}, {v: 2}, ...
QueryRows == {[id |-> k, v |-> (k % MaxKeys) + 1, w |-> IF k % 2 = 0 THEN "'b'" ELSE "'a'"] : k \in Keys}
QueryTables == {t \in [1..MaxKeys -> QueryRows] : \A i, j \in 1..MaxKeys : t[i] = t[j] => i = j}

Optional(field, values) == {EmptyObject} \cup {field :> x : x \in values}

\* the params of find: every field is optional, skip >= 0 and limit > 0
FindParams ==
  { JsObject(f @@ o @@ s @@ l @@ p) :
      f \in Optional("filters", {JsObject([w |-> "'a'"]), JsPredicate("v", 2)}),
      o \in Optional("orderBy", {"v"}),
      s \in Optional("skip", 0..MaxSkip),
      l \in Optional("limit", 1..MaxLimit),
      p \in Optional("fields", {<<"v">>, <<"w", "v">>}) }

----------------------------------------------------------------------------
(* Index options.  A string is the sequence of its pieces, "." being the   *)
(* piece that String.split('.') cuts at; every value carries the same      *)
(* fields so that typeof and Array.isArray can be decided.                 *)

IndexValue(kind) == [kind |-> kind, str |-> <<>>, arr |-> <<>>, obj |-> <<>>, path |-> <<>>]

StringOptions(pieces) == [IndexValue("string") EXCEPT !.str = pieces]
ArrayOptions(fields) == [IndexValue("array") EXCEPT !.arr = fields]
ObjectOptions(o) == [IndexValue("object") EXCEPT !.obj = o]
\* a function of r; obj.result is what it returns
FunctionOptions(result) == [IndexValue("function") EXCEPT !.obj = [result |-> result]]
\* the ReQL term r.row(f1)(f2)...; r.row itself has the empty path
Row(path) == [IndexValue("row") EXCEPT !.path = path]
\* a ReQL function, such as the one the summary index of the test returns
ReqlFunction(name) == [IndexValue("reqlFunction") EXCEPT !.str = <<name>>]

\* typeof options
TypeOfOptions(options) ==
  CASE options.kind = "string" -> "string"
    [] options.kind \in {"function", "row", "reqlFunction"} -> "function"
    [] OTHER -> "object"

\* options.includes('.')
Includes(pieces, piece) == \E i \in 1..Len(pieces) : pieces[i] = piece

\* options.split('.')
RECURSIVE Split(_, _)
Split(pieces, sep) ==
  IF ~Includes(pieces, sep)
    THEN <<pieces>>
    ELSE LET i == CHOOSE k \in 1..Len(pieces) :
                    pieces[k] = sep /\ \A j \in 1..(k - 1) : pieces[j] # sep
         IN <<SubSeq(pieces, 1, i - 1)>> \o Split(SubSeq(pieces, i + 1, Len(pieces)), sep)

\* acc(field)
Access(acc, field) == [acc EXCEPT !.path = Append(@, field)]

\* segments.reduce((acc, field) => acc(field), r.row)
RECURSIVE Reduce(_, _)
Reduce(segments, acc) ==
  IF segments = <<>> THEN acc ELSE Reduce(Tail(segments), Access(acc, Head(segments)))

\* the conditions of the four branches of processIndexOptions
IsDottedString(options) == TypeOfOptions(options) = "string" /\ Includes(options.str, ".")
IsFieldList(options) == options.kind = "array"
\* the third branch without !Array.isArray(options)
IsObjectType(options) == TypeOfOptions(options) = "object"
IsPlainObject(options) == TypeOfOptions(options) = "object" /\ options.kind # "array"
IsFunction(options) == TypeOfOptions(options) = "function"

\* processIndexOptions: what is pushed to processedOptions, branch by branch
ProcessIndexOptions(options) ==
  (IF IsDottedString(options)
     THEN <<Reduce(Split(options.str, "."), Row(<<>>))>> ELSE <<>>)
  \o (IF IsFieldList(options)
        THEN <<ArrayOptions([i \in 1..Len(options.arr) |-> Access(Row(<<>>), options.arr[i].str)])>>
        ELSE <<>>)
  \o (IF IsPlainObject(options) THEN <<options>> ELSE <<>>)
  \o (IF IsFunction(options) THEN <<options.obj.result>> ELSE <<>>)

----------------------------------------------------------------------------
(* Generator construction and schema bootstrap *)

Gens == {"g1", "g2"}

Namespace == "entity.User"
\* extractTableName(namespace): the part after the last dot
TableName == "User"
\* the operations of the map
MapOperations ==
  {"query", "find", "findOne", "findById", "create", "update", "validate", "save", "remove"}

IndexEntry(name, options) == [name |-> name, options |-> options]

\* the indexes the test suite declares, and their shapes
TestIndexes ==
  << IndexEntry("birthdateYear", StringOptions(<<"birthdate", ".", "year">>)),
     IndexEntry("fullname",
                ArrayOptions(<<StringOptions(<<"firstName">>), StringOptions(<<"lastName">>)>>)),
     IndexEntry("hobbies", ObjectOptions([multi |-> TRUE])),
     IndexEntry("summary", FunctionOptions(ReqlFunction("summary"))),
     IndexEntry("email", StringOptions(<<"email">>)) >>

\* options.indexes: at most MaxIndexes of the indexes of the test suite
\* that follow one another in the declaration
IndexConfigs ==
  { SubSeq(TestIndexes, w[1], w[2]) :
      w \in {v \in (1..Len(TestIndexes)) \X (0..Len(TestIndexes)) :
               v[1] <= v[2] + 1 /\ v[2] - v[1] < MaxIndexes} }

\* _options: with or without r and conn, autoCreateTable and indexes
Handles == [r |-> "r", conn |-> "conn"]
RawOptions ==
  { Handles @@ i : i \in Optional("indexes", IndexConfigs) }
    \cup { Handles @@ [autoCreateTable |-> FALSE],
           Handles @@ [autoCreateTable |-> FALSE, indexes |-> <<TestIndexes[1], TestIndexes[2]>>] }
    \cup { [r |-> "r"], [conn |-> "conn", indexes |-> <<TestIndexes[1]>>], EmptyObject }

NoOptions == [tableName |-> TableName, indexes |-> <<>>, autoCreateTable |-> FALSE]

\* Joi.attempt(_options, {...}): r and conn are required, indexes defaults
\* to {} and autoCreateTable to true
GeneratorOptions(raw) ==
  IF ~("r" \in DOMAIN raw /\ "conn" \in DOMAIN raw)
    THEN [ok |-> FALSE, value |-> NoOptions]
    ELSE [ok |-> TRUE,
          value |-> [tableName |-> TableName,
                     indexes |-> IF "indexes" \in DOMAIN raw THEN raw.indexes ELSE <<>>,
                     autoCreateTable |-> IF "autoCreateTable" \in DOMAIN raw
                                           THEN raw.autoCreateTable ELSE TRUE]]

StoreCall(call, name) == [call |-> call, name |-> name]

IdleGen ==
  [pc |-> "idle", rawOptions |-> EmptyObject, options |-> NoOptions,
   tables |-> {}, existingIndexes |-> {}, pending |-> {},
   outcome |-> "pending", error |-> "none", result |-> EmptyObject,
   trace |-> <<>>, follows |-> {}]

GenReject(gen, err) ==
  [gen EXCEPT !.pc = "done", !.outcome = "rejected", !.error = err]

\* the default export calling createTable whatever autoCreateTable is
GenerateAndCreate(g, raw) ==
  LET o == GeneratorOptions(raw)
      started == [IdleGen EXCEPT !.rawOptions = raw,
                                 !.follows = {h \in Gens : gens[h].pc = "done"}]
  IN /\ gens[g].pc = "idle"
     /\ gens' = [gens EXCEPT ![g] =
          IF ~o.ok
            THEN [started EXCEPT !.pc = "done", !.outcome = "thrown",
                                 !.error = "ValidationError"]
            ELSE [started EXCEPT !.options = o.value, !.pc = "tableList",
                                 !.trace = <<StoreCall("tableList", "")>>]]
     /\ UNCHANGED <<tableList, indexList, crudVars>>

\* the default export, up to the first suspension: Joi.attempt throws, or
\* Promise.resolve(autoCreateTable && createTable(r, conn, tableName, indexes))
Generate(g, raw) ==
  LET o == GeneratorOptions(raw)
      started == [IdleGen EXCEPT !.rawOptions = raw,
                                 !.follows = {h \in Gens : gens[h].pc = "done"}]
  IN /\ gens[g].pc = "idle"
     /\ gens' = [gens EXCEPT ![g] =
          IF ~o.ok
            THEN [started EXCEPT !.pc = "done", !.outcome = "thrown",
                                 !.error = "ValidationError"]
            ELSE IF ~o.value.autoCreateTable
              THEN [started EXCEPT !.options = o.value, !.pc = "ensured"]
              ELSE [started EXCEPT !.options = o.value, !.pc = "tableList",
                                   !.trace = <<StoreCall("tableList", "")>>]]
     /\ UNCHANGED <<tableList, indexList, crudVars>>

\* the store executes r.tableList()
StoreTableList(g) ==
  /\ gens[g].pc = "tableList"
  /\ gens' = [gens EXCEPT ![g] = [@ EXCEPT !.pc = "tables", !.tables = tableList]]
  /\ UNCHANGED <<tableList, indexList, crudVars>>

\* createTableIfNotExists without the test of the list of tables
CreateTableAlways(g) ==
  LET gen == gens[g]
  IN /\ gen.pc = "tables"
     /\ gens' = [gens EXCEPT ![g] =
          [gen EXCEPT !.pc = "tableCreate",
                      !.trace = Append(@, StoreCall("tableCreate", gen.options.tableName))]]
     /\ UNCHANGED <<tableList, indexList, crudVars>>

\* createTableIfNotExists, the callback on the list of tables; when the
\* table is listed, createTable goes on with createIndexesIfNotExist
CreateTableIfNotExists(g) ==
  LET gen == gens[g]
  IN /\ gen.pc = "tables"
     /\ gens' = [gens EXCEPT ![g] =
          IF gen.options.tableName \notin gen.tables
            THEN [gen EXCEPT !.pc = "tableCreate",
                             !.trace = Append(@, StoreCall("tableCreate", gen.options.tableName))]
            ELSE [gen EXCEPT !.pc = "indexList",
                             !.trace = Append(@, StoreCall("indexList", gen.options.tableName))]]
     /\ UNCHANGED <<tableList, indexList, crudVars>>

\* the store executes r.tableCreate(tableName): an error when the table
\* exists
StoreTableCreate(g) ==
  LET gen == gens[g]
  IN /\ gen.pc = "tableCreate"
     /\ IF gen.options.tableName \in tableList
          THEN /\ gens' = [gens EXCEPT ![g] = GenReject(gen, "ReqlOpFailedError")]
               /\ UNCHANGED tableList
          ELSE /\ gens' = [gens EXCEPT ![g] = [gen EXCEPT !.pc = "tableCreated"]]
               /\ tableList' = tableList \cup {gen.options.tableName}
     /\ UNCHANGED <<indexList, crudVars>>

\* createTable that stops at the table
CreateTableOnly(g) ==
  /\ gens[g].pc = "tableCreated"
  /\ gens' = [gens EXCEPT ![g] = [@ EXCEPT !.pc = "ensured"]]
  /\ UNCHANGED <<tableList, indexList, crudVars>>

\* createTable, the callback on the table being ensured:
\* createIndexesIfNotExist issues r.table(tableName).indexList()
CreateTable(g) ==
  /\ gens[g].pc = "tableCreated"
  /\ gens' = [gens EXCEPT ![g] =
       [@ EXCEPT !.pc = "indexList",
                 !.trace = Append(@, StoreCall("indexList", gens[g].options.tableName))]]
  /\ UNCHANGED <<tableList, indexList, crudVars>>

\* the store executes r.table(tableName).indexList()
StoreIndexList(g) ==
  LET gen == gens[g]
  IN /\ gen.pc = "indexList"
     /\ gens' = [gens EXCEPT ![g] =
          IF gen.options.tableName \in tableList
            THEN [gen EXCEPT !.pc = "indexes", !.existingIndexes = DOMAIN indexList]
            ELSE GenReject(gen, "ReqlOpFailedError")]
     /\ UNCHANGED <<tableList, indexList, crudVars>>

\* every declared index, whatever the list holds
DeclaredIndexes(indexes, existingIndexes) == indexes

\* the declared indexes that a list of index names lacks
MissingIndexes(indexes, existingIndexes) ==
  SelectSeq(indexes, LAMBDA e : e.name \notin existingIndexes)

\* createIndexesIfNotExist, the callback on the list of indexes: one
\* indexCreate for every declared name that the list lacks, all issued at once
CreateIndexesIfNotExist(g) ==
  LET gen == gens[g]
      missing == MissingIndexes(gen.options.indexes, gen.existingIndexes)
  IN /\ gen.pc = "indexes"
     /\ gens' = [gens EXCEPT ![g] =
          IF missing = <<>>
            THEN [gen EXCEPT !.pc = "ensured"]
            ELSE [gen EXCEPT !.pc = "indexCreate",
                             !.pending = Range(missing),
                             !.trace = @ \o [i \in 1..Len(missing) |->
                                              StoreCall("indexCreate", missing[i].name)]]]
     /\ UNCHANGED <<tableList, indexList, crudVars>>

\* Promise.all over the indexCreate calls: it is rejected with the first
\* failure and fulfilled when every call has succeeded; the calls that are
\* still in flight are executed whatever the others did
IndexCreateSettled(gen, entry, err) ==
  LET left == gen.pending \ {entry}
      failed == gen.outcome = "rejected" \/ err # "none"
  IN [gen EXCEPT !.pending = left,
                 !.outcome = IF failed THEN "rejected" ELSE @,
                 !.error = IF gen.outcome # "rejected" /\ err # "none" THEN err ELSE @,
                 !.pc = IF left # {} THEN "indexCreate"
                        ELSE IF failed THEN "done" ELSE "ensured"]

\* the store executes r.table(tableName).indexCreate(indexName, ...args):
\* an error when an index of that name exists
StoreIndexCreate(g) ==
  \E entry \in gens[g].pending :
    /\ gens[g].pc = "indexCreate"
    /\ IF entry.name \in DOMAIN indexList
         THEN /\ gens' = [gens EXCEPT ![g] = IndexCreateSettled(@, entry, "ReqlOpFailedError")]
              /\ UNCHANGED indexList
         ELSE /\ gens' = [gens EXCEPT ![g] = IndexCreateSettled(@, entry, "none")]
              /\ indexList' = (entry.name :> ProcessIndexOptions(entry.options)) @@ indexList
    /\ UNCHANGED <<tableList, crudVars>>

\* run(conn) fails for a call of the bootstrap: nothing is executed
BootstrapFail(g) ==
  /\ \/ /\ gens[g].pc \in {"tableList", "tableCreate", "indexList"}
        /\ gens' = [gens EXCEPT ![g] = GenReject(@, "ReqlDriverError")]
     \/ /\ gens[g].pc = "indexCreate"
        /\ \E entry \in gens[g].pending :
             gens' = [gens EXCEPT ![g] = IndexCreateSettled(@, entry, "ReqlDriverError")]
  /\ UNCHANGED <<tableList, indexList, crudVars>>

\* the default export, its last callback: () => ({ namespace, map })
GenResolved(g) ==
  /\ gens[g].pc = "ensured"
  /\ gens' = [gens EXCEPT ![g] =
       [@ EXCEPT !.pc = "done", !.outcome = "resolved",
                 !.result = [namespace |-> Namespace, map |-> MapOperations]]]
  /\ UNCHANGED <<tableList, indexList, crudVars>>

----------------------------------------------------------------------------
(* Calls *)

IdleCall ==
  [op |-> "none", pc |-> "idle", params |-> JsUndefined, data |-> JsUndefined,
   reply |-> NoReply, result |-> JsUndefined, outcome |-> "pending", error |-> "none",
   trace |-> <<>>, before |-> <<>>, after |-> <<>>, follows |-> {},
   dispatched |-> <<>>, notified |-> <<>>]

\* dispatch(`${namespace}.${name}`, params), issued by a handler of the map
Dispatch(name, params) == [name |-> name, params |-> params]

\* The dispatcher is not part of the generator.  dispatch(name, params)
\* runs the handlers that onBefore registered on the name, then the handler
\* of the map, and once its promise is fulfilled the handlers that onAfter
\* registered on the name.
HandlersBefore == <<"before">>
HandlersAfter(notified) == Append(notified, "after")

\* a call as the dispatcher starts it: follows is the set of calls that
\* were settled by then, notified the handlers registered on the operation
\* that the dispatcher has run
Started(c, op, p) ==
  [IdleCall EXCEPT !.op = op, !.params = p,
                   !.follows = {d \in Calls : calls[d].pc = "done"},
                   !.notified = HandlersBefore]

\* the table of the generator exists and no construction is under way
Bootstrapped ==
  /\ tableList = {TableName}
  /\ indexList = EmptyObject
  /\ gens = [g \in Gens |-> IdleGen]

Init ==
  /\ schema \in {NoSchema, UserSchema}
  /\ \/ table = <<>> /\ nextKey = 1
     \/ table = <<Assign(John, [id |-> 1])>> /\ nextKey = 2
  /\ calls = [c \in Calls |-> IdleCall]
  /\ Bootstrapped

Resolve(call, value) ==
  [call EXCEPT !.pc = "done", !.outcome = "resolved", !.result = value,
               !.notified = HandlersAfter(@)]
Reject(call, err) ==
  [call EXCEPT !.pc = "done", !.outcome = "rejected", !.error = err]

\* map.save: dispatch(`${namespace}.validate`, params)
InvokeSave(c, p) ==
  /\ calls[c].pc = "idle"
  /\ calls' = [calls EXCEPT ![c] =
       [Started(c, "save", p) EXCEPT !.pc = "validate", !.trace = <<"validate">>,
                                      !.dispatched = <<Dispatch("validate", p)>>]]
  /\ UNCHANGED <<schema, table, nextKey, bootVars>>

\* a create that hands a copy of params over: Object.assign({}, params)
CreateDispatchCopy(params) == Dispatch("save", JsObject(OwnProperties(params)))

\* what map.create dispatches
CreateDispatch(params) == Dispatch("save", params)

\* map.create: dispatch(`${namespace}.save`, params), which runs map.save
InvokeCreate(c, p) ==
  /\ calls[c].pc = "idle"
  /\ calls' = [calls EXCEPT ![c] =
       [Started(c, "create", p) EXCEPT
          !.pc = "validate",
          !.trace = <<"dispatchSave", "validate">>,
          !.dispatched = <<CreateDispatch(p), Dispatch("validate", CreateDispatch(p).params)>>]]
  /\ UNCHANGED <<schema, table, nextKey, bootVars>>

\* the steps of the first callback of map.save, in the order of its
\* statements: emitBefore, then doSave (persist is "insert" or "update")
EmitThenPersist(persist) == <<persist, "before">>
SaveCallbackSteps(persist) == <<"before", persist>>

\* doSave: data.id ? doUpdate(data.id, data) : doInsert(data)
DoSave(data) == IF HasId(data) THEN "update" ELSE "insert"

\* map.save with emitBefore ahead of the dispatch of validate
SaveEmitsFirst(c) ==
  LET call == calls[c]
      p == call.dispatched[Len(call.dispatched)].params
      v == Validate(p, schema)
  IN /\ call.pc = "validate"
     /\ call.op \in {"save", "create"}
     /\ calls' = [calls EXCEPT ![c] =
          IF ~v.ok
            THEN [Reject(call, "ValidationError") EXCEPT !.before = Append(@, p),
                                                          !.trace = Append(@, "before")]
            ELSE [call EXCEPT !.data = v.value,
                              !.before = Append(@, p),
                              !.pc = DoSave(v.value),
                              !.trace = @ \o SaveCallbackSteps(DoSave(v.value))]]
     /\ UNCHANGED <<schema, table, nextKey, bootVars>>

\* map.save, first callback: the validation of the params it dispatched
\* failed, or emitBefore and doSave
SaveValidated(c) ==
  LET call == calls[c]
      v == Validate(call.dispatched[Len(call.dispatched)].params, schema)
  IN /\ call.pc = "validate"
     /\ call.op \in {"save", "create"}
     /\ calls' = [calls EXCEPT ![c] =
          IF ~v.ok
            THEN Reject(call, "ValidationError")
            ELSE [call EXCEPT !.data = v.value,
                              !.before = Append(@, v.value),
                              !.pc = DoSave(v.value),
                              !.trace = @ \o SaveCallbackSteps(DoSave(v.value))]]
     /\ UNCHANGED <<schema, table, nextKey, bootVars>>

\* the store executes table.insert(data) and answers with the generated keys
StoreInsert(c) ==
  LET call == calls[c]
      docs == Documents(call.data)
  IN /\ call.pc = "insert"
     /\ nextKey + Len(docs) - 1 <= MaxKeys
     /\ table' = table \o InsertedRows(docs, nextKey)
     /\ nextKey' = nextKey + Len(docs)
     /\ calls' = [calls EXCEPT ![c] =
          [call EXCEPT !.pc = "insertReply",
                       !.reply = [NoReply EXCEPT !.wellFormed = TRUE,
                                                 !.generated_keys = GeneratedKeys(docs, nextKey)]]]
     /\ UNCHANGED <<schema, bootVars>>

\* the store answers table.insert(data) with a write error: nothing is
\* written and the response carries no generated_keys
StoreInsertError(c) ==
  /\ calls[c].pc = "insert"
  /\ calls' = [calls EXCEPT ![c] = [@ EXCEPT !.pc = "insertReply", !.reply = NoReply]]
  /\ UNCHANGED <<schema, table, nextKey, bootVars>>

\* run(conn) fails: the promise of the store call is rejected
StoreFail(c) ==
  /\ calls[c].pc \in {"insert", "update", "get", "query", "delete"}
  /\ calls' = [calls EXCEPT ![c] = Reject(@, "ReqlError")]
  /\ UNCHANGED <<schema, table, nextKey, bootVars>>

\* doInsert without the check of generated_keys
DoInsertUnchecked(data, reply) ==
  IF ~reply.wellFormed
    THEN [ok |-> TRUE, value |-> data]
    ELSE IF Len(reply.generated_keys) = 1
      THEN [ok |-> TRUE,
            value |-> JsObject(Assign(OwnProperties(data), [id |-> reply.generated_keys[1]]))]
      ELSE [ok |-> TRUE,
            value |-> JsArray([i \in 1..Len(data.arr) |->
                                Assign(data.arr[i], [id |-> reply.generated_keys[i]])])]

\* doInsert returning the generated key without the data
DoInsertKeyOnly(data, reply) ==
  IF ~reply.wellFormed
    THEN [ok |-> FALSE, value |-> JsUndefined]
    ELSE IF Len(reply.generated_keys) = 1
      THEN [ok |-> TRUE, value |-> JsObject([id |-> reply.generated_keys[1]])]
      ELSE IF ~IsArray(data)
        THEN [ok |-> FALSE, value |-> JsUndefined]
        ELSE [ok |-> TRUE,
              value |-> JsArray([i \in 1..Len(data.arr) |-> [id |-> reply.generated_keys[i]]])]

\* doInsert, the callback on the reply of table.insert(data)
DoInsert(data, reply) ==
  IF ~reply.wellFormed
    THEN [ok |-> FALSE, value |-> JsUndefined]
    ELSE IF Len(reply.generated_keys) = 1
      THEN [ok |-> TRUE,
            value |-> JsObject(Assign(OwnProperties(data), [id |-> reply.generated_keys[1]]))]
      ELSE IF ~IsArray(data)
        THEN [ok |-> FALSE, value |-> JsUndefined]
        ELSE [ok |-> TRUE,
              value |-> JsArray([i \in 1..Len(data.arr) |->
                                  Assign(data.arr[i], [id |-> reply.generated_keys[i]])])]

InsertReply(c) ==
  LET call == calls[c]
      r == DoInsert(call.data, call.reply)
  IN /\ call.pc = "insertReply"
     /\ calls' = [calls EXCEPT ![c] =
          IF r.ok THEN [call EXCEPT !.pc = "after", !.result = r.value]
                  ELSE Reject(call, "InsertError")]
     /\ UNCHANGED <<schema, table, nextKey, bootVars>>

\* map.save, second callback, with an emitAfter that throws
SaveAfterThrows(c) ==
  /\ calls[c].pc = "after"
  /\ calls' = [calls EXCEPT ![c] = [Reject(@, "TypeError") EXCEPT !.trace = Append(@, "after")]]
  /\ UNCHANGED <<schema, table, nextKey, bootVars>>

\* map.save, second callback, emitting the data it was given to persist
SaveAfterEmitsData(c) ==
  /\ calls[c].pc = "after"
  /\ calls' = [calls EXCEPT ![c] =
       [Resolve(@, @.result) EXCEPT !.after = Append(@, calls[c].data),
                                    !.trace = Append(@, "after")]]
  /\ UNCHANGED <<schema, table, nextKey, bootVars>>

\* map.save, second callback: emitAfter and return the result
SaveAfter(c) ==
  /\ calls[c].pc = "after"
  /\ calls' = [calls EXCEPT ![c] =
       [Resolve(@, @.result) EXCEPT !.after = Append(@, calls[c].result),
                                    !.trace = Append(@, "after")]]
  /\ UNCHANGED <<schema, table, nextKey, bootVars>>

\* the id and the patch of table.get(id).update(patch): map.update sends
\* _.omit(params, 'id'), doUpdate sends the validated data as it is
UpdateRequest(call) ==
  IF call.op = "update"
    THEN [id |-> call.params.obj.id, patch |-> Omit(call.params.obj, "id")]
    ELSE [id |-> call.data.obj.id, patch |-> call.data.obj]

\* map.update without the check of params.id
InvokeUpdateUnchecked(c, p) ==
  /\ calls[c].pc = "idle"
  /\ calls' = [calls EXCEPT ![c] =
       IF ~HasId(p)
         THEN Resolve(Started(c, "update", p), p)
         ELSE [Started(c, "update", p) EXCEPT !.pc = "update", !.trace = <<"update">>]]
  /\ UNCHANGED <<schema, table, nextKey, bootVars>>

\* map.update
InvokeUpdate(c, p) ==
  /\ calls[c].pc = "idle"
  /\ calls' = [calls EXCEPT ![c] =
       IF ~HasId(p)
         THEN Reject(Started(c, "update", p), "MissingIdentifier")
         ELSE [Started(c, "update", p) EXCEPT !.pc = "update", !.trace = <<"update">>]]
  /\ UNCHANGED <<schema, table, nextKey, bootVars>>

\* the store executes table.get(id).update(patch, { returnChanges: true })
StoreUpdate(c) ==
  LET call == calls[c]
      req == UpdateRequest(call)
  IN /\ call.pc = "update"
     /\ table' = UpdatedTable(table, req.id, req.patch)
     /\ calls' = [calls EXCEPT ![c] =
          [call EXCEPT !.pc = "updateReply",
                       !.reply = [NoReply EXCEPT !.changes = UpdateChanges(table, req.id, req.patch)]]]
     /\ UNCHANGED <<schema, nextKey, bootVars>>

\* the callback on the reply of the update: changes[0].new_val, or the
\* fallback (params in map.update, data in doUpdate)
UpdateResultFallbackOnly(fallback, changes) == fallback
UpdateResultOrNull(fallback, changes) ==
  IF Len(changes) # 0 THEN JsObject(changes[1].new_val) ELSE JsNull
UpdateResult(fallback, changes) ==
  IF Len(changes) # 0 THEN JsObject(changes[1].new_val) ELSE fallback

UpdateReply(c) ==
  LET call == calls[c]
  IN /\ call.pc = "updateReply"
     /\ calls' = [calls EXCEPT ![c] =
          IF call.op = "update"
            THEN Resolve(call, UpdateResult(call.params, call.reply.changes))
            ELSE [call EXCEPT !.pc = "after",
                              !.result = UpdateResult(call.data, call.reply.changes)]]
     /\ UNCHANGED <<schema, table, nextKey, bootVars>>

\* map.validate, called through the dispatcher
InvokeValidate(c, p) ==
  LET v == Validate(p, schema)
  IN /\ calls[c].pc = "idle"
     /\ calls' = [calls EXCEPT ![c] =
          IF v.ok THEN Resolve(Started(c, "validate", p), v.value)
                  ELSE Reject(Started(c, "validate", p), "ValidationError")]
     /\ UNCHANGED <<schema, table, nextKey, bootVars>>

\* map.findById: getTable().get(params).run(conn)
InvokeFindById(c, k) ==
  /\ calls[c].pc = "idle"
  /\ calls' = [calls EXCEPT ![c] =
       [Started(c, "findById", JsKey(k)) EXCEPT !.pc = "get", !.trace = <<"get">>]]
  /\ UNCHANGED <<schema, table, nextKey, bootVars>>

StoreGet(c) ==
  /\ calls[c].pc = "get"
  /\ calls' = [calls EXCEPT ![c] = Resolve(@, TableGet(table, @.params.obj.key))]
  /\ UNCHANGED <<schema, table, nextKey, bootVars>>

Term(name, arg) == [name |-> name, arg |-> arg]

\* params[field] is truthy: objects, functions and arrays always are, a
\* number unless it is 0, a string unless it is empty
Truthy(params, field) ==
  /\ field \in DOMAIN params
  /\ field \in {"skip", "limit"} => params[field] # 0
  /\ field = "orderBy" => params[field] # ""

\* paramsToQuery with limit applied before skip
ParamsToQueryLimitFirst(params) ==
  IF params.kind = "key"
    THEN <<Term("get", params.obj.key)>>
    ELSE LET p == params.obj
         IN (IF Truthy(p, "filters") THEN <<Term("filter", p.filters)>> ELSE <<>>)
            \o (IF Truthy(p, "orderBy") THEN <<Term("orderBy", p.orderBy)>> ELSE <<>>)
            \o (IF Truthy(p, "limit") THEN <<Term("limit", p.limit)>> ELSE <<>>)
            \o (IF Truthy(p, "skip") THEN <<Term("skip", p.skip)>> ELSE <<>>)
            \o (IF Truthy(p, "fields") THEN <<Term("pluck", p.fields)>> ELSE <<>>)

\* paramsToQuery: the terms chained on getTable()
ParamsToQuery(params) ==
  IF params.kind = "key"
    THEN <<Term("get", params.obj.key)>>
    ELSE LET p == params.obj
         IN (IF Truthy(p, "filters") THEN <<Term("filter", p.filters)>> ELSE <<>>)
            \o (IF Truthy(p, "orderBy") THEN <<Term("orderBy", p.orderBy)>> ELSE <<>>)
            \o (IF Truthy(p, "skip") THEN <<Term("skip", p.skip)>> ELSE <<>>)
            \o (IF Truthy(p, "limit") THEN <<Term("limit", p.limit)>> ELSE <<>>)
            \o (IF Truthy(p, "fields") THEN <<Term("pluck", p.fields)>> ELSE <<>>)

\* map.find: paramsToQuery(params).run(conn)
InvokeFind(c, p) ==
  /\ calls[c].pc = "idle"
  /\ calls' = [calls EXCEPT ![c] =
       [Started(c, "find", p) EXCEPT !.pc = "query", !.trace = <<"query">>]]
  /\ UNCHANGED <<schema, table, nextKey, bootVars>>

\* the store executes the query and answers with a cursor
StoreQuery(c) ==
  /\ calls[c].pc = "query"
  /\ calls' = [calls EXCEPT ![c] =
       [@ EXCEPT !.pc = "cursor",
                 !.reply = [NoReply EXCEPT !.cursor = RunQuery(ParamsToQuery(calls[c].params), table)]]]
  /\ UNCHANGED <<schema, table, nextKey, bootVars>>

\* map.find, the callback on the cursor: cursor.toArray()
FindReply(c) ==
  /\ calls[c].pc = "cursor"
  /\ calls' = [calls EXCEPT ![c] = Resolve(@, JsArray(@.reply.cursor))]
  /\ UNCHANGED <<schema, table, nextKey, bootVars>>

\* map.remove: paramsToQuery(params).delete({ returnChanges: params.load }).run(conn)
InvokeRemove(c, p) ==
  /\ calls[c].pc = "idle"
  /\ calls' = [calls EXCEPT ![c] =
       [Started(c, "remove", p) EXCEPT !.pc = "delete", !.trace = <<"delete">>]]
  /\ UNCHANGED <<schema, table, nextKey, bootVars>>

\* a remove that deletes from the table, whatever params is
RemoveFromTable(params) == <<>>

\* the query map.remove calls delete on
RemoveQuery(params) == ParamsToQuery(params)

\* params.load is truthy (a string has no load)
ReturnChanges(params) ==
  params.kind = "object" /\ "load" \in DOMAIN params.obj /\ params.obj.load

\* query.delete({ returnChanges }): the rows left in the table, and the reply
DeletedTable(t, selected) ==
  SelectSeq(t, LAMBDA row : \A i \in 1..Len(selected) : selected[i].id # row.id)
DeleteReply(selected, returnChanges) ==
  JsObject(IF returnChanges
             THEN [deleted |-> Len(selected),
                   changes |-> [i \in 1..Len(selected) |-> [old_val |-> selected[i]]]]
             ELSE [deleted |-> Len(selected)])

\* the store executes the delete; map.remove resolves with its reply
StoreDelete(c) ==
  LET call == calls[c]
      selected == RunQuery(RemoveQuery(call.params), table)
  IN /\ call.pc = "delete"
     /\ table' = DeletedTable(table, selected)
     /\ calls' = [calls EXCEPT ![c] =
          Resolve(call, DeleteReply(selected, ReturnChanges(call.params)))]
     /\ UNCHANGED <<schema, nextKey, bootVars>>

Next ==
  \E c \in Calls :
    \/ \E p \in SavePayloads : InvokeSave(c, p)
    \/ \E p \in CreatePayloads : InvokeCreate(c, p)
    \/ \E p \in UpdatePayloads : InvokeUpdate(c, p)
    \/ \E p \in ValidatePayloads : InvokeValidate(c, p)
    \/ \E k \in Keys : InvokeFindById(c, k)
    \/ SaveValidated(c)
    \/ StoreInsert(c)
    \/ StoreInsertError(c)
    \/ StoreFail(c)
    \/ InsertReply(c)
    \/ StoreUpdate(c)
    \/ UpdateReply(c)
    \/ SaveAfter(c)
    \/ StoreGet(c)

Spec == Init /\ [][Next]_vars

\* The queries of find on a collection that no call writes to.
InitQuery ==
  /\ schema = NoSchema
  /\ table \in QueryTables
  /\ nextKey = MaxKeys + 1
  /\ calls = [c \in Calls |-> IdleCall]
  /\ Bootstrapped

QueryCaller == CHOOSE c \in Calls : TRUE

NextQuery ==
  \/ \E p \in FindParams : InvokeFind(QueryCaller, p)
  \/ StoreQuery(QueryCaller)
  \/ StoreFail(QueryCaller)
  \/ FindReply(QueryCaller)

QuerySpec == InitQuery /\ [][NextQuery]_vars

\* The construction of generators on a database that holds another table,
\* with or without the table of the generator and some of its indexes.
InitBoot ==
  /\ schema = NoSchema
  /\ table = <<>>
  /\ nextKey = 1
  /\ calls = [c \in Calls |-> IdleCall]
  /\ \/ tableList = {"Post"} /\ indexList = EmptyObject
     \/ /\ tableList = {"Post", TableName}
        /\ indexList \in {EmptyObject,
                          "email" :> <<>>,
                          "fullname" :> <<Row(<<<<"name">>>>)>>}
  /\ gens = [g \in Gens |-> IdleGen]

NextBoot ==
  \E g \in Gens :
    \/ \E raw \in RawOptions : Generate(g, raw)
    \/ StoreTableList(g)
    \/ CreateTableIfNotExists(g)
    \/ StoreTableCreate(g)
    \/ CreateTable(g)
    \/ StoreIndexList(g)
    \/ CreateIndexesIfNotExist(g)
    \/ StoreIndexCreate(g)
    \/ BootstrapFail(g)
    \/ GenResolved(g)

BootSpec == InitBoot /\ [][NextBoot]_vars

\* The construction of one generator that declares one index, for every
\* shape of index options, on a database that holds its table.
IndexFields ==
  {StringOptions(<<"a">>), StringOptions(<<"b">>), StringOptions(<<"a", ".", "b">>)}

IndexOptionsInputs ==
  {StringOptions(s) : s \in UNION {[1..n -> {"a", "b", "."}] : n \in 1..MaxPieces}}
    \cup {ArrayOptions(f) : f \in UNION {[1..n -> IndexFields] : n \in 0..2}}
    \cup {ObjectOptions(o) : o \in {EmptyObject, [multi |-> TRUE], [multi |-> FALSE], [geo |-> TRUE]}}
    \cup {FunctionOptions(f) : f \in {ReqlFunction("summary"), Row(<<<<"a">>>>)}}

InitNormalize ==
  /\ schema = NoSchema
  /\ table = <<>>
  /\ nextKey = 1
  /\ calls = [c \in Calls |-> IdleCall]
  /\ Bootstrapped

Constructor == CHOOSE g \in Gens : TRUE

NextNormalize ==
  \/ \E o \in IndexOptionsInputs :
       Generate(Constructor, Handles @@ [indexes |-> <<IndexEntry("index", o)>>])
  \/ StoreTableList(Constructor)
  \/ CreateTableIfNotExists(Constructor)
  \/ StoreIndexList(Constructor)
  \/ CreateIndexesIfNotExist(Constructor)
  \/ StoreIndexCreate(Constructor)
  \/ GenResolved(Constructor)

NormalizeSpec == InitNormalize /\ [][NextNormalize]_vars



\* The removal of records from a collection that holds up to MaxKeys of
\* them, and findById.
RemoveTables ==
  UNION { {[i \in 1..n |-> Assign(people[i], [id |-> i])] : people \in [1..n -> {John, Jane}]} :
          n \in 0..MaxKeys }

\* the params of remove: an id, or an object with or without filters and load
RemoveParams ==
  {JsKey(k) : k \in Keys}
    \cup { JsObject(f @@ l) :
             f \in Optional("filters", { JsObject([lastName |-> "'Doe'"]),
                                         JsObject([firstName |-> "'John'"]),
                                         JsObject([firstName |-> "'Zoe'"]) }),
             l \in Optional("load", BOOLEAN) }

InitRemove ==
  /\ schema = NoSchema
  /\ table \in RemoveTables
  /\ nextKey = Len(table) + 1
  /\ calls = [c \in Calls |-> IdleCall]
  /\ Bootstrapped

NextRemove ==
  \E c \in Calls :
    \/ \E p \in RemoveParams : InvokeRemove(c, p)
    \/ \E k \in Keys : InvokeFindById(c, k)
    \/ StoreDelete(c)
    \/ StoreGet(c)
    \/ StoreFail(c)

RemoveSpec == InitRemove /\ [][NextRemove]_vars

----------------------------------------------------------------------------
(* Properties *)

IsPrefix(s, t) == Len(s) <= Len(t) /\ \A i \in 1..Len(s) : s[i] = t[i]
Count(s, x) == Cardinality({i \in 1..Len(s) : s[i] = x})

IsSave(c) == calls[c].op \in {"save", "create"}

\* the steps of the save a call runs (create enters save through dispatch)
SaveSteps(c) == IF calls[c].op = "create" THEN Tail(calls[c].trace) ELSE calls[c].trace

SaveOrder(persist) == <<"validate", "before", persist, "after">>

\* C1: within a save call the steps occur in the order validate dispatch,
\* before-hook, persist (one insert or one update), after-hook, each at
\* most once; a successful save has fired the before-hook once and then
\* the after-hook once.
C1_SaveStepOrder ==
  \A c \in Calls : IsSave(c) =>
    /\ \E persist \in {"insert", "update"} : IsPrefix(SaveSteps(c), SaveOrder(persist))
    /\ Len(calls[c].before) = Count(SaveSteps(c), "before")
    /\ Len(calls[c].after) = Count(SaveSteps(c), "after")
    /\ calls[c].outcome = "resolved" =>
         /\ Len(SaveSteps(c)) = 4
         /\ Len(calls[c].before) = 1
         /\ Len(calls[c].after) = 1

C1_Witness ==
  \E c \in Calls :
    /\ calls[c].op = "save"
    /\ calls[c].outcome = "resolved"
    /\ calls[c].trace = SaveOrder("update")

\* the persist step of a save call failed: the store rejected the call, or
\* the reply to the insert carried no well-formed generated_keys
PersistFailed(c) ==
  \/ calls[c].error = "ReqlError"
  \/ /\ calls[c].pc = "done"
     /\ Count(calls[c].trace, "insert") = 1
     /\ ~calls[c].reply.wellFormed

\* C2: the after-hook of save fires if and only if the save succeeds; when
\* the validation or the persist step fails it is never emitted and the
\* call is rejected; when it fires it carries the record(s) save returns.
C2_AfterHookIffSuccess ==
  \A c \in Calls : IsSave(c) =>
    /\ (calls[c].after # <<>>) <=> (calls[c].outcome = "resolved")
    /\ calls[c].outcome = "resolved" => calls[c].after = <<calls[c].result>>
    /\ (~Validate(calls[c].params, schema).ok /\ calls[c].pc # "validate") =>
         (calls[c].outcome = "rejected" /\ calls[c].error = "ValidationError")
    /\ PersistFailed(c) => calls[c].outcome = "rejected"

C2_Witness ==
  \E c \in Calls :
    /\ IsSave(c)
    /\ calls[c].error = "InsertError"
    /\ calls[c].outcome = "rejected"
    /\ calls[c].before # <<>>
    /\ calls[c].after = <<>>

IsObject(x) == x.kind = "object"

\* a save (or create) of one record without an identifier that passes the
\* validation
SingleInsert(c) ==
  /\ IsSave(c)
  /\ IsObject(calls[c].params)
  /\ ~HasId(calls[c].params)
  /\ Validate(calls[c].params, schema).ok

\* a call other than c has changed the row with this id
OtherWrote(c, id) ==
  \E d \in Calls \ {c} :
    /\ calls[d].reply.changes # <<>>
    /\ calls[d].reply.changes[1].new_val.id = id

\* a findById of the id that save call c returned, issued after c settled
FoundAfter(d, c) ==
  /\ calls[d].op = "findById"
  /\ calls[d].outcome = "resolved"
  /\ c \in calls[d].follows
  /\ calls[d].params = JsKey(calls[c].result.obj.id)

\* the store has just executed the insert of call c
InsertStep(c) ==
  /\ calls[c].pc = "insert"
  /\ calls'[c].pc = "insertReply"
  /\ calls'[c].reply.wellFormed

\* C3 as stated: save(R) of a valid record R without an identifier resolves
\* with R plus a generated id, and a following findById of that id returns
\* a record equal to R plus that id.
C3_RoundTripOfInput ==
  \A c \in Calls : (SingleInsert(c) /\ calls[c].outcome = "resolved") =>
    /\ \E k \in Keys : calls[c].result = JsObject(Assign(calls[c].params.obj, [id |-> k]))
    /\ \A d \in Calls : (FoundAfter(d, c) /\ ~OtherWrote(c, calls[c].result.obj.id)) =>
         calls[d].result = calls[c].result

C3_RoundTripState ==
  \A c \in Calls : SingleInsert(c) =>
    LET validated == Validate(calls[c].params, schema).value.obj
    IN /\ (calls[c].pc = "done" /\ calls[c].reply.wellFormed) => calls[c].outcome = "resolved"
       /\ calls[c].outcome = "resolved" =>
            /\ \E k \in Keys : calls[c].result = JsObject(Assign(validated, [id |-> k]))
            /\ \A d \in Calls : (FoundAfter(d, c) /\ ~OtherWrote(c, calls[c].result.obj.id)) =>
                 calls[d].result = calls[c].result

C3_RoundTripStep ==
  \A c \in Calls : (SingleInsert(c) /\ calls'[c] # calls[c]) =>
    IF InsertStep(c)
      THEN Len(table') = Len(table) + 1 /\ SubSeq(table', 1, Len(table)) = table
      ELSE table' = table

\* C3, amended: save(R) of a record R without an identifier that passes the
\* validation resolves with the validated form of R plus a generated id, a
\* following findById of that id returns a record equal to it, and the
\* collection gains exactly one record.
C3_InsertFindRoundTrip == []C3_RoundTripState /\ [][C3_RoundTripStep]_vars

C3_Witness ==
  \E c, d \in Calls :
    /\ SingleInsert(c)
    /\ calls[c].outcome = "resolved"
    /\ FoundAfter(d, c)
    /\ calls[d].result = calls[c].result

\* C4: a batch of n >= 1 records without identifiers (here: one that the
\* validation leaves as it is) is returned as a sequence of n records,
\* element i being input record i plus the i-th generated identifier.
C4_BatchPositional ==
  \A c \in Calls :
    ( /\ IsSave(c)
      /\ IsArray(calls[c].params)
      /\ Validate(calls[c].params, schema).value = calls[c].params
      /\ calls[c].outcome = "resolved" ) =>
    /\ IsArray(calls[c].result)
    /\ Len(calls[c].result.arr) = Len(calls[c].params.arr)
    /\ \A i \in 1..Len(calls[c].params.arr) :
         calls[c].result.arr[i] =
           Assign(calls[c].params.arr[i], [id |-> calls[c].reply.generated_keys[i]])

\* C5: save dispatches on the identifier of its payload, with and without a
\* schema: a payload with an id is persisted by an update and inserts
\* nothing, a payload without an id is persisted by an insert.
C5_SaveDispatchOnId ==
  \A c \in Calls : (IsSave(c) /\ Len(SaveSteps(c)) >= 3) =>
    /\ (HasId(calls[c].params) /\ HasRow(table, calls[c].params.obj.id)) =>
         SaveSteps(c)[3] = "update"
    /\ ~HasId(calls[c].params) => SaveSteps(c)[3] = "insert"

\* the row an update of the row R with the payload P has to leave
UpdatedRow(R, P) == [f \in (DOMAIN R) \cup (DOMAIN P) |-> IF f \in DOMAIN P THEN P[f] ELSE R[f]]

C6_UpdateState ==
  \A c \in Calls :
    (calls[c].op = "update" /\ calls[c].outcome = "resolved" /\ calls[c].reply.changes # <<>>) =>
      /\ IsObject(calls[c].result)
      /\ calls[c].result.obj = UpdatedRow(calls[c].reply.changes[1].old_val, calls[c].params.obj)
      /\ calls[c].result.obj = calls[c].reply.changes[1].new_val
      /\ calls[c].result.obj.id = calls[c].reply.changes[1].old_val.id

C6_UpdateStep ==
  \A c \in Calls : (calls[c].op = "update" /\ calls'[c] # calls[c]) =>
    IF calls[c].pc = "update" /\ calls'[c].pc = "updateReply"
      THEN /\ Len(table') = Len(table)
           /\ \A i \in 1..Len(table) :
                IF table[i].id = calls[c].params.obj.id
                  THEN /\ table'[i] = UpdatedRow(table[i], calls[c].params.obj)
                       /\ calls'[c].reply.changes # <<>> =>
                            /\ calls'[c].reply.changes[1].old_val = table[i]
                            /\ calls'[c].reply.changes[1].new_val = table'[i]
                  ELSE table'[i] = table[i]
      ELSE table' = table

\* C6: an update that changes the persisted record R returns and stores R
\* with the submitted fields set to the submitted values; the id and the
\* fields not in the payload are unchanged, and so is every other record.
C6_UpdatePreservesFields == []C6_UpdateState /\ [][C6_UpdateStep]_vars

C6_Witness ==
  \E c \in Calls :
    /\ calls[c].op = "update"
    /\ calls[c].outcome = "resolved"
    /\ calls[c].reply.changes # <<>>
    /\ (DOMAIN calls[c].reply.changes[1].old_val) \ (DOMAIN calls[c].params.obj) # {}
    /\ Len(table) > 1

\* the store has answered the update of call c with an empty change list
NoChange(c) ==
  /\ Count(calls[c].trace, "update") = 1
  /\ calls[c].pc \in {"after", "done"}
  /\ calls[c].error = "none"
  /\ calls[c].reply.changes = <<>>

\* C7: when the store reports no change for an update, update and the
\* update branch of save resolve with a record that has every field and
\* value of the submitted payload.
C7_NoOpUpdateFallsBack ==
  \A c \in Calls : NoChange(c) =>
    /\ calls[c].pc = "done" => calls[c].outcome = "resolved"
    /\ IsObject(calls[c].result)
    /\ \A f \in DOMAIN calls[c].params.obj :
         /\ f \in DOMAIN calls[c].result.obj
         /\ calls[c].result.obj[f] = calls[c].params.obj[f]

C7_Witness ==
  \E c \in Calls :
    /\ calls[c].op = "update"
    /\ NoChange(c)
    /\ calls[c].outcome = "resolved"
    /\ HasRow(table, calls[c].params.obj.id)
    /\ TableGet(table, calls[c].params.obj.id) = calls[c].params

C8_MissingIdState ==
  \A c \in Calls : (calls[c].op = "update" /\ ~HasId(calls[c].params)) =>
    /\ calls[c].pc = "done"
    /\ calls[c].outcome = "rejected"
    /\ calls[c].error = "MissingIdentifier"
    /\ calls[c].trace = <<>>
    /\ calls[c].reply = NoReply

C8_MissingIdStep ==
  \A c \in Calls :
    (calls'[c].op = "update" /\ ~HasId(calls'[c].params) /\ calls'[c] # calls[c]) =>
      (table' = table /\ nextKey' = nextKey)

\* C8: update with a payload that has no id fails with an explicit error,
\* issues no store call and leaves the collection unchanged.
C8_MissingIdRejects == []C8_MissingIdState /\ [][C8_MissingIdStep]_vars

C8_Witness ==
  \E c \in Calls :
    /\ calls[c].op = "update"
    /\ ~HasId(calls[c].params)
    /\ calls[c].error = "MissingIdentifier"
    /\ table # <<>>

\* the fields of a record that the schema declares, the id left out
DeclaredFields(r) == ((DOMAIN r) \cap (DOMAIN schema.keys)) \ {"id"}
MissingRequired(r) == \E f \in DOMAIN schema.keys : schema.keys[f].required /\ f \notin DOMAIN r

\* the payload of a settled call of validate is answered as expected(r)
\* says for each record r, and rejected when fails(r) holds of a record
ValidateAnswers(c, fails(_), expected(_)) ==
  LET p == calls[c].params
      rejected == calls[c].outcome = "rejected" /\ calls[c].error = "ValidationError"
      resolved == calls[c].outcome = "resolved"
  IN IF ~schema.defined
       THEN resolved /\ calls[c].result = p
       ELSE IF IsArray(p)
         THEN IF \E i \in 1..Len(p.arr) : fails(p.arr[i])
                THEN rejected
                ELSE /\ resolved
                     /\ IsArray(calls[c].result)
                     /\ Len(calls[c].result.arr) = Len(p.arr)
                     /\ \A i \in 1..Len(p.arr) : calls[c].result.arr[i] = expected(p.arr[i])
         ELSE IF fails(p.obj)
                THEN rejected
                ELSE resolved /\ calls[c].result = JsObject(expected(p.obj))

StrippedRecord(r) == [f \in DeclaredFields(r) |-> r[f]]

\* C9 as stated: validate returns the payload unchanged without a schema,
\* validates a sequence element-wise, and for a record returns exactly its
\* schema-declared fields (id and undeclared fields removed), signalling an
\* error when a required field is missing.
C9_ValidateAsStated ==
  \A c \in Calls : (calls[c].op = "validate" /\ calls[c].pc = "done") =>
    ValidateAnswers(c, MissingRequired, StrippedRecord)

IllTyped(r) == \E f \in DeclaredFields(r) : ~JoiAccepts(schema.keys[f], r[f])
ConvertedRecord(r) == [f \in DeclaredFields(r) |-> JoiConvert(schema.keys[f], r[f])]
FailsValidation(r) == MissingRequired(r) \/ IllTyped(r)

\* C9, amended: validate returns the payload unchanged without a schema,
\* validates a sequence element-wise (same length and order), and for a
\* record returns its schema-declared fields, each converted to its
\* declared type, with the id and the undeclared fields removed; it signals
\* an error when a required field is missing or a value does not fit the
\* declared type.
C9_ValidateReference ==
  \A c \in Calls : (calls[c].op = "validate" /\ calls[c].pc = "done") =>
    ValidateAnswers(c, FailsValidation, ConvertedRecord)

C9_Witness ==
  \E c \in Calls :
    /\ calls[c].op = "validate"
    /\ schema.defined
    /\ calls[c].outcome = "resolved"
    /\ IsArray(calls[c].params)
    /\ Len(calls[c].params.arr) = 2
    /\ calls[c].result.arr[2] # calls[c].params.arr[2]

Present(p, field) == field \in DOMAIN p

\* the rows of the table that pass the filters, in the order of the table
MatchedRows(p) ==
  IF Present(p, "filters") THEN SelectSeq(table, LAMBDA row : Matches(p.filters, row)) ELSE table

\* rows is an arrangement of the rows of from in ascending order of field
IsAscending(rows, from, field) ==
  /\ Len(rows) = Len(from)
  /\ Range(rows) = Range(from)
  /\ \A i, j \in 1..Len(rows) : i < j => rows[i][field] < rows[j][field]

\* the result of find is the composition filters, orderBy, skip, limit,
\* fields of the steps present in p
IsComposition(result, p) ==
  \E ordered \in [1..Len(MatchedRows(p)) -> Range(MatchedRows(p))] :
    /\ IF Present(p, "orderBy")
         THEN IsAscending(ordered, MatchedRows(p), p.orderBy)
         ELSE ordered = MatchedRows(p)
    /\ LET skipped == IF Present(p, "skip") THEN p.skip ELSE 0
           rest == IF Len(ordered) > skipped THEN Len(ordered) - skipped ELSE 0
           kept == IF Present(p, "limit") /\ p.limit < rest THEN p.limit ELSE rest
       IN /\ Len(result) = kept
          /\ \A i \in 1..kept :
               result[i] = IF Present(p, "fields")
                             THEN [f \in Range(p.fields) |-> ordered[i + skipped][f]]
                             ELSE ordered[i + skipped]

ExampleParams ==
  JsObject([filters |-> JsPredicate("v", 2), orderBy |-> "v", skip |-> 1, limit |-> 1])

\* C10: find returns the whole collection narrowed by exactly the steps
\* whose field is present, in the order filters, orderBy, skip, limit,
\* fields; over the rows v = 1, 2, 3 the filter v >= 2 with orderBy v,
\* skip 1 and limit 1 yields exactly the row v = 3.
C10_QueryComposition ==
  \A c \in Calls : (calls[c].op = "find" /\ calls[c].outcome = "resolved") =>
    /\ IsArray(calls[c].result)
    /\ IsComposition(calls[c].result.arr, calls[c].params.obj)
    /\ (calls[c].params = ExampleParams /\ {row.v : row \in Range(table)} = {1, 2, 3}) =>
         (Len(calls[c].result.arr) = 1 /\ calls[c].result.arr[1].v = 3)

C10_Witness ==
  \E c \in Calls :
    /\ calls[c].op = "find"
    /\ calls[c].outcome = "resolved"
    /\ calls[c].params = ExampleParams
    /\ Len(table) = 3
    /\ table[1].v = 3
    /\ Len(calls[c].result.arr) = 1
    /\ calls[c].result.arr[1].v = 3

\* C15: a create dispatches save once, with the params it was given, and
\* does nothing else: the steps that follow are those of a save of these
\* params (validate, before-hook, one insert or update, after-hook), every
\* hook it emits is emitted by one of them, and it is rejected with the
\* validation error of the save or resolved with what the save emitted to
\* its after-hook.
C15_CreateIsSave ==
  \A c \in Calls : calls[c].op = "create" =>
    LET call == calls[c]
        v == Validate(call.params, schema)
    IN /\ {i \in 1..Len(call.dispatched) : call.dispatched[i].name = "save"} = {1}
       /\ call.dispatched[1].params = call.params
       /\ call.dispatched[2] = Dispatch("validate", call.params)
       /\ call.trace[1] = "dispatchSave" /\ Count(call.trace, "dispatchSave") = 1
       /\ \E persist \in {"insert", "update"} : IsPrefix(Tail(call.trace), SaveOrder(persist))
       /\ Len(call.before) = Count(Tail(call.trace), "before")
       /\ Len(call.after) = Count(Tail(call.trace), "after")
       /\ call.pc # "validate" =>
            IF v.ok THEN call.data = v.value /\ call.before = <<v.value>>
                    ELSE call.outcome = "rejected" /\ call.error = "ValidationError"
       /\ call.outcome = "resolved" => call.after = <<call.result>>

\* a create of two records resolved with the two records of the save
C15_Witness ==
  \E c \in Calls :
    /\ calls[c].op = "create"
    /\ calls[c].params = JsArray(<<John, Jane>>)
    /\ calls[c].outcome = "resolved"
    /\ Len(calls[c].result.arr) = 2
    /\ calls[c].trace = <<"dispatchSave">> \o SaveOrder("insert")

\* the payload fails the schema of the generator
RecordFails(p) ==
  /\ schema.defined
  /\ IF IsArray(p) THEN \E i \in 1..Len(p.arr) : FailsValidation(p.arr[i])
                   ELSE FailsValidation(p.obj)

C18_AbortState ==
  \A c \in Calls : (IsSave(c) /\ RecordFails(calls[c].params)) =>
    /\ calls[c].before = <<>>
    /\ calls[c].after = <<>>
    /\ SaveSteps(c) = <<"validate">>
    /\ calls[c].pc # "validate" =>
         calls[c].outcome = "rejected" /\ calls[c].error = "ValidationError"

C18_AbortStep ==
  \A c \in Calls :
    (calls'[c] # calls[c] /\ calls'[c].op \in {"save", "create"}
       /\ RecordFails(calls'[c].params)) => table' = table /\ nextKey' = nextKey

\* C18: a save or create whose payload fails the schema emits no hook,
\* issues no insert, update or delete (its trace ends at the dispatch of
\* validate and none of its steps changes the table), and is rejected with
\* the validation error.
C18_ValidationAborts == []C18_AbortState /\ [][C18_AbortStep]_vars

\* a create of a record without its required lastName was rejected, on a
\* table that holds a record
C18_Witness ==
  \E c \in Calls :
    /\ calls[c].op = "create"
    /\ calls[c].params = JsObject(Incomplete)
    /\ calls[c].outcome = "rejected" /\ calls[c].error = "ValidationError"
    /\ Len(table) = 1

\* the two calls overlap: neither was settled when the other began
Concurrent(c, d) == c # d /\ c \notin calls[d].follows /\ d \notin calls[c].follows

C20_ConcurrentState ==
  \A c, d \in Calls :
    (/\ Concurrent(c, d)
     /\ SingleInsert(c) /\ SingleInsert(d)
     /\ calls[c].outcome = "resolved" /\ calls[d].outcome = "resolved") =>
      /\ SaveSteps(c) = SaveOrder("insert")
      /\ calls[c].result.obj.id # calls[d].result.obj.id
      /\ Omit(calls[c].result.obj, "id") = Validate(calls[c].params, schema).value.obj
      /\ calls[c].after = <<calls[c].result>>
      /\ TableGet(table, calls[c].result.obj.id) = calls[c].result

C20_ConcurrentStep ==
  \A c, d \in Calls :
    (Concurrent(c, d) /\ SingleInsert(c) /\ SingleInsert(d) /\ InsertStep(c)) =>
      /\ calls[c].before = <<calls[c].data>>
      /\ calls[c].after = <<>>
      /\ table' = table \o <<Assign(calls[c].data.obj, [id |-> calls'[c].reply.generated_keys[1]])>>
      /\ \A i \in 1..Len(table) : table[i].id # calls'[c].reply.generated_keys[1]

\* C20: of two overlapping saves of one new record each, each runs its
\* steps in the order validate, before-hook, insert, after-hook, the store
\* executing the insert after the before-hook and before the after-hook;
\* once both are resolved the two records are in the table under distinct
\* ids, and each call returned and emitted to its after-hook its own
\* validated record with its own id.
C20_ConcurrentSaves == []C20_ConcurrentState /\ [][C20_ConcurrentStep]_vars

\* two overlapping saves of different records, both resolved; the one
\* that got the later id was the first to be dispatched to validate
C20_Witness ==
  \E c, d \in Calls :
    /\ Concurrent(c, d)
    /\ calls[c].op = "save" /\ calls[d].op = "save"
    /\ calls[c].params = JsObject(John)
    /\ calls[d].params = JsObject(John @@ [age |-> "'7'"])
    /\ calls[c].outcome = "resolved" /\ calls[d].outcome = "resolved"
    /\ calls[c].result.obj.id = calls[d].result.obj.id + 1

\* the record is one that the params of a remove select
Selects(params, row) ==
  IF params.kind = "key"
    THEN row.id = params.obj.key
    ELSE "filters" \in DOMAIN params.obj =>
           \A k \in DOMAIN params.obj.filters.obj :
             k \in DOMAIN row /\ row[k] = params.obj.filters.obj[k]

Removes(c) ==
  calls[c].op = "remove" /\ calls[c].pc = "delete" /\ calls'[c].outcome = "resolved"

C14_RemoveStep ==
  /\ \A c \in Calls :
       Removes(c) =>
         table' = SelectSeq(table, LAMBDA row : ~Selects(calls[c].params, row))
  /\ (\A c \in Calls : ~Removes(c)) => table' = table

C14_RemoveState ==
  \A c, d \in Calls :
    /\ calls[c].op = "remove" /\ calls[c].outcome = "resolved"
    /\ calls[c].params.kind = "key"
    /\ calls[d].op = "findById" /\ calls[d].outcome = "resolved"
    /\ c \in calls[d].follows
    /\ calls[d].params = calls[c].params
    => calls[d].result = JsNull

\* C14: the step that executes a remove drops from the table the records
\* its params select (the record of that id for an id, the records equal
\* to the filters on every field of them otherwise) and keeps the others as
\* they were and in their order; a findById of an id begun after remove(id)
\* resolved resolves with null unless the store call fails.
C14_RemoveDeletesSelected ==
  []C14_RemoveState /\ [][C14_RemoveStep]_vars

\* remove(1) deleted the first of two records, and the findById(1) that
\* followed resolved with null
C14_Witness ==
  \E c, d \in Calls :
    /\ calls[c].op = "remove" /\ calls[c].params = JsKey(1)
    /\ calls[c].outcome = "resolved" /\ calls[c].result.obj.deleted = 1
    /\ calls[d].op = "findById" /\ calls[d].params = JsKey(1)
    /\ c \in calls[d].follows
    /\ calls[d].result = JsNull
    /\ Len(table) = 1 /\ table[1].id = 2

----------------------------------------------------------------------------
(* Properties of the schema bootstrap *)

Issued(g, call) == {i \in 1..Len(gens[g].trace) : gens[g].trace[i].call = call}
IssuedNames(g, call) == {gens[g].trace[i].name : i \in Issued(g, call)}
DeclaredNames(g) == {gens[g].options.indexes[i].name : i \in 1..Len(gens[g].options.indexes)}

Bootstraps(g) == gens[g].pc # "idle" /\ gens[g].options.autoCreateTable

\* h is a second run of the bootstrap of g: same table and indexes, begun
\* after the construction of g resolved
SecondRun(g, h) ==
  /\ g # h
  /\ g \in gens[h].follows
  /\ gens[g].outcome = "resolved"
  /\ Bootstraps(g) /\ Bootstraps(h)
  /\ gens[h].options = gens[g].options

Steps(g) == gens'[g] # gens[g]
StoreUnchanged == tableList' = tableList /\ indexList' = indexList

C11_SecondRunState ==
  \A g, h \in Gens :
    SecondRun(g, h) => Issued(h, "tableCreate") = {} /\ Issued(h, "indexCreate") = {}

C11_SecondRunStep ==
  \A g, h \in Gens : SecondRun(g, h) /\ Steps(h) => StoreUnchanged

\* C11: a bootstrap run after a resolved bootstrap of the same table and
\* index configuration issues no tableCreate and no indexCreate and leaves
\* the tables and the indexes of the store as the first run left them.
C11_IdempotentBootstrap == []C11_SecondRunState /\ [][C11_SecondRunStep]_vars

\* the first run created the table and two indexes, the second run resolved
C11_Witness ==
  \E g, h \in Gens :
    /\ SecondRun(g, h)
    /\ gens[h].outcome = "resolved"
    /\ Issued(g, "tableCreate") # {}
    /\ Cardinality(Issued(g, "indexCreate")) = 2

\* the store calls of a bootstrap come in the order tableList, tableCreate
\* (if any), indexList, indexCreate (any number)
BootstrapOrder(g) ==
  LET t == gens[g].trace
  IN \A i, j \in 1..Len(t) :
       /\ t[i].call = "tableList" => i = 1
       /\ t[i].call = "tableCreate" => i = 2
       /\ t[i].call = "indexList" /\ t[j].call = "indexCreate" => i < j
       /\ t[i].call = "indexCreate" => Issued(g, "indexList") # {}
       /\ t[i].call = "indexCreate" /\ t[j] = t[i] => i = j

C12_BootstrapState ==
  \A g \in Gens :
    /\ Bootstraps(g) /\ gens[g].outcome = "resolved" =>
         /\ gens[g].options.tableName \in tableList
         /\ DeclaredNames(g) \subseteq DOMAIN indexList
    /\ Bootstraps(g) =>
         /\ BootstrapOrder(g)
         /\ Issued(g, "indexCreate") # {} => gens[g].options.tableName \in tableList
         /\ IssuedNames(g, "indexCreate") \subseteq DeclaredNames(g) \ gens[g].existingIndexes

C12_BootstrapStep ==
  \A name \in DOMAIN indexList :
    name \in DOMAIN indexList' /\ indexList'[name] = indexList[name]

\* C12: when a construction with autoCreateTable resolves, the table is in
\* the table list and every declared index name is in the index list; an
\* indexCreate is issued only after the table is ensured and the indexes are
\* listed, only for a declared name the listing lacks, and no step changes
\* or drops an index that exists.
C12_BootstrapPostcondition == []C12_BootstrapState /\ [][C12_BootstrapStep]_vars

\* a construction resolved that found fullname defined otherwise, left it
\* alone and created the table's other declared index
C12_Witness ==
  \E g \in Gens :
    /\ Bootstraps(g) /\ gens[g].outcome = "resolved"
    /\ DeclaredNames(g) = {"fullname", "hobbies"}
    /\ IssuedNames(g, "indexCreate") = {"hobbies"}
    /\ indexList["fullname"] = <<Row(<<<<"name">>>>)>>

LacksHandles(g) ==
  gens[g].pc # "idle" /\ ~({"r", "conn"} \subseteq DOMAIN gens[g].rawOptions)

\* C13: a construction whose options lack r or conn ends with a rejected
\* promise and issues no store call.
C13_ConstructionRejects ==
  \A g \in Gens : LacksHandles(g) => gens[g].outcome = "rejected" /\ gens[g].trace = <<>>

C17_NoAutoCreateState ==
  \A g \in Gens :
    gens[g].pc # "idle" /\ GeneratorOptions(gens[g].rawOptions).ok
      /\ ~GeneratorOptions(gens[g].rawOptions).value.autoCreateTable =>
        /\ gens[g].trace = <<>>
        /\ gens[g].outcome \in {"pending", "resolved"}
        /\ gens[g].pc = "done" =>
              gens[g].result = [namespace |-> Namespace, map |-> MapOperations]

C17_NoAutoCreateStep ==
  \A g \in Gens :
    Steps(g) /\ GeneratorOptions(gens'[g].rawOptions).ok
      /\ ~GeneratorOptions(gens'[g].rawOptions).value.autoCreateTable => StoreUnchanged

\* C17: a construction with autoCreateTable false issues no store call, no
\* step of it changes the tables or the indexes of the store, and it
\* settles by resolving with the namespace and the map.
C17_NoAutoCreate == []C17_NoAutoCreateState /\ [][C17_NoAutoCreateStep]_vars

\* such a construction resolved although its table is not in the store and
\* it declares indexes
C17_Witness ==
  \E g \in Gens :
    /\ gens[g].outcome = "resolved"
    /\ "autoCreateTable" \in DOMAIN gens[g].rawOptions
    /\ ~gens[g].rawOptions.autoCreateTable
    /\ Len(gens[g].options.indexes) = 2
    /\ TableName \notin tableList

\* the pieces of the segments of a path, joined by "."
RECURSIVE Join(_)
Join(segments) ==
  IF Len(segments) = 1 THEN segments[1]
  ELSE segments[1] \o <<".">> \o Join(Tail(segments))

\* the options an index name was declared with
DeclaredOptions(name) ==
  LET g == CHOOSE h \in Gens : name \in DeclaredNames(h)
      i == CHOOSE k \in 1..Len(gens[g].options.indexes) : gens[g].options.indexes[k].name = name
  IN gens[g].options.indexes[i].options

\* what the four shapes of index options are to become
Normalized(options, args) ==
  /\ Len(args) <= 1
  /\ options.kind = "string" /\ Includes(options.str, ".") =>
       /\ Len(args) = 1
       /\ args[1].kind = "row"
       /\ Len(args[1].path) >= 2
       /\ \A i \in 1..Len(args[1].path) : ~Includes(args[1].path[i], ".")
       /\ Join(args[1].path) = options.str
  /\ options.kind = "array" =>
       /\ Len(args) = 1
       /\ args[1].kind = "array"
       /\ Len(args[1].arr) = Len(options.arr)
       /\ \A i \in 1..Len(options.arr) : args[1].arr[i] = Row(<<options.arr[i].str>>)
  /\ options.kind = "object" => args = <<options>>
  /\ options.kind = "function" => args = <<options.obj.result>>

\* C19: the arguments an index is created with, after its name, are what
\* processIndexOptions makes of the declared options: one argument for a
\* dotted string (the accessor of its segments, left to right), for a list
\* of fields (the accessors of the fields, in order), for an object (the
\* object) and for a function (its result), and never two.
C19_OneBranchOneArgument ==
  \A name \in DOMAIN indexList : Normalized(DeclaredOptions(name), indexList[name])

\* the index of the options 'a.b' was created on r.row('a')('b')
C19_Witness ==
  /\ "index" \in DOMAIN indexList
  /\ DeclaredOptions("index") = StringOptions(<<"a", ".", "b">>)
  /\ indexList["index"] = <<Row(<< <<"a">>, <<"b">> >>)>>

\* the table of the generators was not in the database at first: it is not
\* there now, or a construction that did not find it listed asked for it
InitiallyAbsent ==
  TableName \notin tableList \/ \E g \in Gens : Issued(g, "tableCreate") # {}

\* the construction issues r.tableCreate in this step
IssuesTableCreate(g) == gens[g].pc = "tables" /\ gens'[g].pc = "tableCreate"

\* the two constructions overlap: neither was settled when the other began
Overlap(g, h) == g # h /\ g \notin gens[h].follows /\ h \notin gens[g].follows

C21_AsStatedState ==
  \A g, h \in Gens :
    (g # h /\ Bootstraps(g) /\ Bootstraps(h) /\ InitiallyAbsent) =>
      /\ Cardinality(Issued(g, "tableCreate")) + Cardinality(Issued(h, "tableCreate")) <= 1
      /\ (gens[g].pc = "done" /\ gens[g].error # "ReqlDriverError") =>
           gens[g].outcome = "resolved"

C21_AsStatedStep ==
  \A g \in Gens : IssuesTableCreate(g) => gens[g].options.tableName \notin tableList

\* C21 as stated: of two constructions with autoCreateTable on a database
\* that lacked their table, tableCreate is issued at most once in total and
\* never while the table exists, and both resolve unless run(conn) fails.
C21_OverlapSafe == []C21_AsStatedState /\ [][C21_AsStatedStep]_vars

\* the store refused a tableCreate or an indexCreate of the construction
Refused(g) == gens[g].outcome = "rejected" /\ gens[g].error = "ReqlOpFailedError"

C21_CheckThenCreateState ==
  \A g \in Gens : Bootstraps(g) =>
    /\ Cardinality(Issued(g, "tableCreate")) <= 1
    /\ Issued(g, "tableCreate") # {} => gens[g].options.tableName \notin gens[g].tables
    /\ Refused(g) => \E h \in Gens : Overlap(g, h) /\ Bootstraps(h)
    /\ (gens[g].pc = "done" /\ gens[g].error = "none") => gens[g].outcome = "resolved"

C21_CheckThenCreateStep ==
  /\ tableList' # tableList =>
       TableName \notin tableList /\ tableList' = tableList \cup {TableName}
  /\ \A g \in Gens :
       (gens[g].pc = "tableCreate" /\ gens'[g] # gens[g]
          /\ gens[g].options.tableName \in tableList) =>
         /\ gens'[g].outcome = "rejected"
         /\ tableList' = tableList

\* C21, amended: the bootstrap is check-then-create.  A construction issues
\* tableCreate at most once and only when its own tableList reply lacked the
\* table; the store creates the table at most once, and a tableCreate that
\* is executed when the table exists creates nothing and rejects its
\* construction.  The store refuses a create only of a construction that
\* overlaps another one, and a construction none of whose store calls
\* failed resolves.
C21_CheckThenCreate == []C21_CheckThenCreateState /\ [][C21_CheckThenCreateStep]_vars

\* both constructions found the table missing and issued tableCreate: the
\* first resolved, the second was refused by the store
C21_Witness ==
  \E g, h \in Gens :
    /\ Overlap(g, h)
    /\ Issued(g, "tableCreate") # {} /\ Issued(h, "tableCreate") # {}
    /\ gens[g].outcome = "resolved"
    /\ Refused(h) /\ gens[h].pc = "done"
    /\ Issued(h, "indexList") = {}
    /\ TableName \in tableList

\* the call resolves in this step, as an update or through save's doUpdate
ResolvesUpdate(c) ==
  /\ calls[c].outcome = "pending"
  /\ calls'[c].outcome = "resolved"
  /\ \/ calls[c].op = "update"
     \/ IsSave(c) /\ Count(calls[c].trace, "update") = 1

C22_WrittenStep ==
  \A c \in Calls :
    (ResolvesUpdate(c) /\ ~OtherWrote(c, UpdateRequest(calls[c]).id)) =>
      LET id == UpdateRequest(calls[c]).id
          U == calls'[c].result.obj
      IN /\ HasRow(table', id)
         /\ \A f \in DOMAIN U :
              f \in DOMAIN table'[RowIndex(table', id)] /\ table'[RowIndex(table', id)][f] = U[f]

\* C22: when an update, or a save that takes the update branch, resolves
\* with a record, the table holds a record of the id of the payload that
\* agrees with it on every field of it (no other call having written that
\* record), whether or not the id identified a record.
C22_ReturnedIsStored == [][C22_WrittenStep]_vars

====
